---- MODULE Spec2Model ----
(***************************************************************************)
(* Model of src/src/main.rs: the pipeline of main (pull_image,             *)
(* unpack_image, spec, run_container) and the signal-forwarding and        *)
(* child-reaping loop of handle_foreground, together with the kernel       *)
(* behaviour the loop depends on: children that exit and become zombies,   *)
(* standard signals that coalesce while pending, and the default           *)
(* disposition of a signal that arrives while it is not blocked.           *)
(***************************************************************************)
EXTENDS Integers, Sequences, FiniteSets, TLC

VARIABLES pc, image, layers, layerIdx, rootfs, template, ociSpec, container,
          proc, pending,
          sigBlocked, hfResult, runResult, log, fwdLog, absorbed, exitedFirst, drained,
          arrived

vars == <<pc, image, layers, layerIdx, rootfs, template, ociSpec, container,
          proc, pending,
          sigBlocked, hfResult, runResult, log, fwdLog, absorbed, exitedFirst, drained,
          arrived>>

(* ---------------------------- bounds ----------------------------------- *)
\* number of unrelated children of the supervisor
NumOther == 2
\* number of signals other processes send to the supervisor in one run
MaxSignals == 2
\* longest image (in layers) of the unpack specification
MaxLayers == 2
\* longest default namespace list, default mount list and mount option list
\* of the spec-builder specification
MaxNs == 2
MaxMounts == 2
MaxOpts == 2

(* --------------------------- processes --------------------------------- *)
\* the pid container.pid() returns after a successful start
InitPid == 100
FirstOtherPid == 200
OtherPids == FirstOtherPid .. (FirstOtherPid + NumOther - 1)
Pids == {InitPid} \cup OtherPids

\* WaitStatus::Exited(pid, code) and WaitStatus::Signaled(pid, signal, _)
Exited(c) == [kind |-> "Exited", code |-> c, sig |-> "none"]
Signaled(s) == [kind |-> "Signaled", code |-> 0, sig |-> s]
NoStatus == [kind |-> "none", code |-> 0, sig |-> "none"]
InitStatuses == {Exited(0), Exited(3), Signaled("SIGTERM")}
OtherStatuses == {Exited(1), Signaled("SIGKILL")}
\* the unrelated children end alternately by exit(1) and by SIGKILL
StatusesOf(p) ==
    IF p = InitPid THEN InitStatuses
    ELSE IF (p - FirstOtherPid) % 2 = 0 THEN {Exited(1)}
    ELSE {Signaled("SIGKILL")}

(* ---------------------------- signals ---------------------------------- *)
Signals == {"SIGHUP", "SIGTERM", "SIGCHLD", "SIGURG", "SIGWINCH"}
\* signals whose default action is to be ignored; the others terminate
DefaultIgnored == {"SIGCHLD", "SIGURG", "SIGWINCH"}
\* IgnoredSignals without the SIGURG arm
IgnoredSignalsNoUrg == {"SIGWINCH"}
\* the signals of the two empty match arms of handle_foreground
IgnoredSignals == {"SIGURG", "SIGWINCH"}

(* ------------------------ image and layers ----------------------------- *)
Paths == {"/etc/os-release", "/bin/sh"}
Contents == {"A", "B"}
Absent == "-"
\* a layer: the content its archive holds for each path (Absent: no entry)
\* and whether the archive is malformed
Layers == [files : [Paths -> Contents \cup {Absent}], corrupt : BOOLEAN]
LayerPaths(l) == {p \in Paths : l.files[p] # Absent}
SeqsUpTo(S, n) == UNION {[1..k -> S] : k \in 0..n}
AllImages == SeqsUpTo(Layers, MaxLayers)
OsRelease(c) == [p \in Paths |-> IF p = "/etc/os-release" THEN c ELSE Absent]
BinSh(c) == [p \in Paths |-> IF p = "/bin/sh" THEN c ELSE Absent]
\* the images of the full pipeline: two layers writing the same path, and
\* an image whose second layer is malformed
SampleImages ==
    { << [files |-> OsRelease("A"), corrupt |-> FALSE],
         [files |-> OsRelease("B"), corrupt |-> FALSE] >>,
      << [files |-> BinSh("A"), corrupt |-> FALSE],
         [files |-> OsRelease("B"), corrupt |-> TRUE] >> }
EmptyRoot == [p \in Paths |-> Absent]

(* --------------------- the default spec template ----------------------- *)
\* a string is the sequence of its characters, so that starts_with is
\* computed and not assumed
S_rw == <<"r", "w">>
S_ro == <<"r", "o">>
S_rbind == <<"r", "b", "i", "n", "d">>
S_nosuid == <<"n", "o", "s", "u", "i", "d">>
S_noexec == <<"n", "o", "e", "x", "e", "c">>
S_nodev == <<"n", "o", "d", "e", "v">>
S_uid1000 == <<"u", "i", "d", "=", "1", "0", "0", "0">>
S_gid5 == <<"g", "i", "d", "=", "5">>
S_uidmap == <<"u", "i", "d", "m", "a", "p">>
S_uidEq == <<"u", "i", "d", "=">>
S_gidEq == <<"g", "i", "d", "=">>
S_none == <<"n", "o", "n", "e">>
S_sysfs == <<"s", "y", "s", "f", "s">>
S_devpts == <<"d", "e", "v", "p", "t", "s">>
S_proc == <<"p", "r", "o", "c">>

\* o.starts_with(pre)
StartsWith(o, pre) == Len(o) >= Len(pre) /\ SubSeq(o, 1, Len(pre)) = pre

\* a path is the sequence of its components (Path equality compares
\* components)
P_sys == <<"sys">>
P_devpts == <<"dev", "pts">>
P_proc == <<"proc">>
P_sysCgroup == <<"sys", "fs", "cgroup">>

\* Option<T>
None == [some |-> FALSE, val |-> << >>]
Some(v) == [some |-> TRUE, val |-> v]

Ns(t) == [typ |-> t]
Mnt(dest, typ, src, opts) ==
    [destination |-> dest, typ |-> typ, source |-> src, options |-> opts]

\* the effective uid and gid of the invoking process
HostIds == {[uid |-> 1000, gid |-> 100], [uid |-> 0, gid |-> 0]}

\* what get_default_namespaces() and get_default_mounts() return in a full
\* run, and geteuid(), getegid()
SampleTemplate ==
    [namespaces |-> <<Ns("pid"), Ns("network"), Ns("ipc"), Ns("uts"),
                      Ns("mount"), Ns("cgroup")>>,
     mounts |-> <<Mnt(P_proc, Some(S_proc), Some(P_proc), None),
                  Mnt(P_devpts, Some(S_devpts), Some(P_devpts),
                      Some(<<S_nosuid, S_noexec, S_gid5>>)),
                  Mnt(P_sys, Some(S_sysfs), Some(<<"sysfs">>),
                      Some(<<S_nosuid, S_noexec, S_nodev, S_ro>>)),
                  Mnt(P_sysCgroup, Some(<<"c">>), Some(<<"cgroup">>),
                      Some(<<S_nosuid, S_ro>>))>>,
     ids |-> [uid |-> 1000, gid |-> 100]]

\* the templates of the spec-builder specification
NsPool == {Ns("pid"), Ns("network"), Ns("user")}
OptPool == {S_rw, S_uid1000, S_gid5, S_uidmap}
OptionLists == {None} \cup {Some(l) : l \in SeqsUpTo(OptPool, MaxOpts)}
MountPool ==
    {Mnt(P_devpts, Some(S_devpts), Some(P_devpts), o) : o \in OptionLists}
      \cup {Mnt(P_sys, Some(S_sysfs), Some(<<"sysfs">>), o) :
                o \in {None, Some(<<S_rw>>), Some(<<S_rw, S_uid1000>>)}}
AllTemplates ==
    [namespaces : SeqsUpTo(NsPool, MaxNs),
     mounts : SeqsUpTo(MountPool, MaxMounts),
     ids : HostIds]

NoSpec ==
    [built |-> FALSE, namespaces |-> << >>, uid_mappings |-> << >>,
     gid_mappings |-> << >>, mounts |-> << >>]

(* ---------------------------- results ---------------------------------- *)
NoResult == [kind |-> "none", val |-> 0, what |-> ""]
\* Ok(status) of handle_foreground
OkStatus(v) == [kind |-> "Ok", val |-> v, what |-> "status"]
\* Ok(()) of run_container: a success that carries no status
OkUnit == [kind |-> "Ok", val |-> 0, what |-> "unit"]
Err(w) == [kind |-> "Err", val |-> 0, what |-> w]

\* `signal as i32`: the number of the signal
SigNum(s) ==
    CASE s = "SIGHUP" -> 1
      [] s = "SIGKILL" -> 9
      [] s = "SIGTERM" -> 15
      [] s = "SIGCHLD" -> 17
      [] s = "SIGURG" -> 23
      [] s = "SIGWINCH" -> 28
      [] OTHER -> 0

\* StatusVal with the shell's convention for a death by signal
StatusValShell(st) ==
    IF st.kind = "Exited" THEN st.code ELSE 128 + SigNum(st.sig)

\* `status` and `signal as i32` of the two returning arms
StatusVal(st) == IF st.kind = "Exited" THEN st.code ELSE SigNum(st.sig)

Count(s, x) == Cardinality({i \in 1..Len(s) : s[i] = x})

(* ----------------------------- Init ------------------------------------ *)
InitState(images, templates) ==
    /\ pc = "pull"
    /\ image \in images
    /\ template \in templates
    /\ ociSpec = NoSpec
    /\ layers = << >>
    /\ layerIdx = 0
    /\ rootfs = EmptyRoot
    /\ container = "none"
    /\ proc = [p \in Pids |-> [state |-> "none", status |-> NoStatus]]
    /\ pending = {}
    /\ sigBlocked = FALSE
    /\ hfResult = NoResult
    /\ runResult = NoResult
    /\ log = << >>
    /\ fwdLog = << >>
    /\ absorbed = << >>
    /\ exitedFirst = {}
    /\ drained = 0
    /\ arrived = 0

InitWith(images) == InitState(images, {SampleTemplate})

Init == InitWith(SampleImages)

(* ------------------------- main: the pipeline -------------------------- *)
pipeVars == <<image, layers, layerIdx, rootfs, template, ociSpec>>
supVars == <<proc, pending, sigBlocked, hfResult, fwdLog, absorbed,
            exitedFirst, drained>>

\* pull_image(...).await? succeeds: image_data holds the layers in manifest
\* order
PullOk ==
    /\ pc = "pull"
    /\ log' = Append(log, "pull")
    /\ layers' = image
    /\ pc' = "unpack"
    /\ UNCHANGED <<image, layerIdx, rootfs, template, ociSpec, container,
                   runResult, arrived>>
    /\ UNCHANGED supVars

\* pull_image fails (reference does not parse, transport error): main returns
PullErr ==
    /\ pc = "pull"
    /\ log' = Append(log, "pull")
    /\ runResult' = Err("pull")
    /\ pc' = "exit"
    /\ UNCHANGED <<container, arrived>>
    /\ UNCHANGED pipeVars
    /\ UNCHANGED supVars

\* unpack_image is entered
UnpackCall ==
    /\ pc = "unpack"
    /\ log' = Append(log, "unpack")
    /\ pc' = "unpack_loop"
    /\ UNCHANGED <<container, runResult, arrived>>
    /\ UNCHANGED pipeVars
    /\ UNCHANGED supVars

\* ApplyLayer that keeps a file that is already there
ApplyLayerKeepFirst(root, l) ==
    [p \in Paths |-> IF root[p] # Absent THEN root[p] ELSE l.files[p]]

\* archive.unpack("test/rootfs") of a well-formed layer: every entry of the
\* archive is written to its path, replacing what is there
ApplyLayer(root, l) ==
    [p \in Paths |-> IF l.files[p] # Absent THEN l.files[p] ELSE root[p]]

\* a malformed archive: the entries in done were extracted before the error
ApplyPartial(root, l, done) ==
    [p \in Paths |-> IF p \in done THEN l.files[p] ELSE root[p]]

\* one iteration of `for layer in image_data.layers`, the unpack succeeding
UnpackLayerOk ==
    /\ pc = "unpack_loop"
    /\ layerIdx < Len(layers)
    /\ ~layers[layerIdx + 1].corrupt
    /\ rootfs' = ApplyLayer(rootfs, layers[layerIdx + 1])
    /\ layerIdx' = layerIdx + 1
    /\ UNCHANGED <<pc, image, layers, template, ociSpec, container, runResult,
                   log, arrived>>
    /\ UNCHANGED supVars

\* one iteration whose archive.unpack(...)? fails: unpack_image returns the
\* error, and main returns it
UnpackLayerErr ==
    /\ pc = "unpack_loop"
    /\ layerIdx < Len(layers)
    /\ layers[layerIdx + 1].corrupt
    /\ \E done \in SUBSET LayerPaths(layers[layerIdx + 1]) :
           rootfs' = ApplyPartial(rootfs, layers[layerIdx + 1], done)
    /\ layerIdx' = layerIdx + 1
    /\ runResult' = Err("unpack")
    /\ pc' = "exit"
    /\ UNCHANGED <<image, layers, template, ociSpec, container, log, arrived>>
    /\ UNCHANGED supVars

\* the loop has consumed every layer: Ok(())
UnpackDone ==
    /\ pc = "unpack_loop"
    /\ layerIdx = Len(layers)
    /\ pc' = "spec"
    /\ UNCHANGED <<container, runResult, log, arrived>>
    /\ UNCHANGED pipeVars
    /\ UNCHANGED supVars

(* ------------------------- get_rootless, spec -------------------------- *)
\* KeepNs that removes only the network namespace
KeepNsNetworkOnly(ns) == ns.typ # "network"

\* the filter of the default namespaces
KeepNs(ns) == ns.typ # "network" /\ ns.typ # "user"

\* LinuxIdMappingBuilder ... host_id(h).container_id(0).size(1)
IdMapping(h) == [host_id |-> h, container_id |-> 0, size |-> 1]

\* KeepOpt that forgets the gid= options
KeepOptUidOnly(o) == ~StartsWith(o, S_uidEq)

\* the filter of the options of a mount other than /sys
KeepOpt(o) == ~StartsWith(o, S_gidEq) /\ ~StartsWith(o, S_uidEq)

\* mount.options().as_ref().unwrap_or(&vec![])
UnwrapOrEmpty(opt) == IF opt.some THEN opt.val ELSE << >>

\* the body of `for mount in &mut mounts`
RootlessMount(m) ==
    IF m.destination = P_sys
      THEN [m EXCEPT !.source = Some(P_sys),
                     !.typ = Some(S_none),
                     !.options = Some(<<S_rbind, S_nosuid, S_noexec, S_nodev,
                                        S_ro>>)]
      ELSE [m EXCEPT !.options =
                         Some(SelectSeq(UnwrapOrEmpty(m.options), KeepOpt))]

\* get_rootless() on the defaults t
GetRootless(t) ==
    [built |-> TRUE,
     namespaces |-> Append(SelectSeq(t.namespaces, KeepNs), Ns("user")),
     uid_mappings |-> <<IdMapping(t.ids.uid)>>,
     gid_mappings |-> <<IdMapping(t.ids.gid)>>,
     mounts |-> [i \in 1..Len(t.mounts) |-> RootlessMount(t.mounts[i])]]

\* spec()? succeeds: get_rootless() built the spec and config.json is written
SpecOk ==
    /\ pc = "spec"
    /\ log' = Append(log, "spec")
    /\ ociSpec' = GetRootless(template)
    /\ pc' = "build"
    /\ UNCHANGED <<container, runResult, arrived>>
    /\ UNCHANGED <<image, layers, layerIdx, rootfs, template>>
    /\ UNCHANGED supVars

\* SpecErr with the error recorded but not returned
SpecErrContinue ==
    /\ pc = "spec"
    /\ log' = Append(log, "spec")
    /\ runResult' = Err("spec")
    /\ pc' = "build"
    /\ UNCHANGED <<container, arrived>>
    /\ UNCHANGED pipeVars
    /\ UNCHANGED supVars

\* spec()? fails (get_rootless, File::create or the write)
SpecErr ==
    /\ pc = "spec"
    /\ log' = Append(log, "spec")
    /\ runResult' = Err("spec")
    /\ pc' = "exit"
    /\ UNCHANGED <<container, arrived>>
    /\ UNCHANGED pipeVars
    /\ UNCHANGED supVars

(* --------------------------- run_container ----------------------------- *)
\* run_container is entered and ContainerBuilder ... .build()? succeeds
BuildOk ==
    /\ pc = "build"
    /\ log' = log \o <<"run_container", "build">>
    /\ container' = "built"
    /\ pc' = "start"
    /\ UNCHANGED <<runResult, arrived>>
    /\ UNCHANGED pipeVars
    /\ UNCHANGED supVars

\* validate_id()? or build()? fails
BuildErr ==
    /\ pc = "build"
    /\ log' = log \o <<"run_container", "build">>
    /\ runResult' = Err("build")
    /\ pc' = "exit"
    /\ UNCHANGED <<container, arrived>>
    /\ UNCHANGED pipeVars
    /\ UNCHANGED supVars

\* container.start() succeeds: the init process runs and its pid is known
StartOk ==
    /\ pc = "start"
    /\ log' = Append(log, "start")
    /\ container' = "started"
    /\ proc' = [proc EXCEPT ![InitPid].state = "running"]
    /\ pc' = "hf_block"
    /\ UNCHANGED <<runResult, arrived, pending, sigBlocked, hfResult, fwdLog,
                   absorbed, exitedFirst, drained>>
    /\ UNCHANGED pipeVars

\* StartErr with the error of start logged and not returned
StartErrContinue ==
    /\ pc = "start"
    /\ log' = Append(log, "start")
    /\ pc' = "hf_block"
    /\ UNCHANGED <<container, runResult, arrived>>
    /\ UNCHANGED pipeVars
    /\ UNCHANGED supVars

\* .start().with_context(...)? fails: run_container returns the error
StartErr ==
    /\ pc = "start"
    /\ log' = Append(log, "start")
    /\ runResult' = Err("start")
    /\ pc' = "exit"
    /\ UNCHANGED <<container, arrived>>
    /\ UNCHANGED pipeVars
    /\ UNCHANGED supVars

\* container.delete(true)? succeeds, then Ok(())
DeleteOk ==
    /\ pc = "delete"
    /\ log' = Append(log, "delete")
    /\ container' = "deleted"
    /\ runResult' = OkUnit
    /\ pc' = "exit"
    /\ UNCHANGED arrived
    /\ UNCHANGED pipeVars
    /\ UNCHANGED supVars

\* container.delete(true)? fails: run_container returns the error
DeleteErr ==
    /\ pc = "delete"
    /\ log' = Append(log, "delete")
    /\ runResult' = Err("delete")
    /\ pc' = "exit"
    /\ UNCHANGED <<container, arrived>>
    /\ UNCHANGED pipeVars
    /\ UNCHANGED supVars

(* -------------------------- handle_foreground -------------------------- *)
restVars == <<container, runResult, arrived>>

\* signal_set.thread_block() succeeds: every signal is blocked from now on
ThreadBlockOk ==
    /\ pc = "hf_block"
    /\ log' = Append(log, "thread_block")
    /\ sigBlocked' = TRUE
    /\ pc' = "hf_wait"
    /\ UNCHANGED <<proc, pending, hfResult, fwdLog, absorbed, exitedFirst, drained>>
    /\ UNCHANGED pipeVars
    /\ UNCHANGED restVars

\* thread_block().with_context(...)? fails: handle_foreground returns Err
ThreadBlockErr ==
    /\ pc = "hf_block"
    /\ log' = Append(log, "thread_block")
    /\ hfResult' = Err("pthread_sigmask")
    /\ pc' = "delete"
    /\ UNCHANGED <<proc, pending, sigBlocked, fwdLog, absorbed, exitedFirst, drained>>
    /\ UNCHANGED pipeVars
    /\ UNCHANGED restVars

\* signal_set.wait() returns SIGCHLD: enter the inner reap loop
SigwaitChld ==
    /\ pc = "hf_wait"
    /\ "SIGCHLD" \in pending
    /\ pending' = pending \ {"SIGCHLD"}
    /\ pc' = "hf_reap"
    /\ drained' = 0
    /\ UNCHANGED <<proc, sigBlocked, hfResult, fwdLog, absorbed, exitedFirst, log>>
    /\ UNCHANGED pipeVars
    /\ UNCHANGED restVars

\* signal_set.wait() returns SIGURG or SIGWINCH: the arm is empty
SigwaitIgnored(s) ==
    /\ pc = "hf_wait"
    /\ s \in pending
    /\ s \in IgnoredSignals
    /\ pending' = pending \ {s}
    /\ absorbed' = Append(absorbed, [sig |-> s, init |-> proc[InitPid].state])
    /\ UNCHANGED <<pc, proc, sigBlocked, hfResult, fwdLog, exitedFirst, drained, log>>
    /\ UNCHANGED pipeVars
    /\ UNCHANGED restVars

\* SigwaitForward that signals the process group of init_pid
SigwaitForwardGroup(s, ok) ==
    /\ pc = "hf_wait"
    /\ s \in pending
    /\ s # "SIGCHLD"
    /\ s \notin IgnoredSignals
    /\ pending' = pending \ {s}
    /\ fwdLog' = Append(fwdLog, [sig |-> s, pid |-> 0 - InitPid, ok |-> ok])
    /\ UNCHANGED <<pc, proc, sigBlocked, hfResult, absorbed, exitedFirst, drained, log>>
    /\ UNCHANGED pipeVars
    /\ UNCHANGED restVars

\* SigwaitForward with the result of kill propagated by `?`
SigwaitForwardPropagating(s, ok) ==
    /\ pc = "hf_wait"
    /\ s \in pending
    /\ s # "SIGCHLD"
    /\ s \notin IgnoredSignals
    /\ pending' = pending \ {s}
    /\ fwdLog' = Append(fwdLog, [sig |-> s, pid |-> InitPid, ok |-> ok])
    /\ IF ok THEN UNCHANGED <<pc, hfResult>>
             ELSE hfResult' = Err("kill") /\ pc' = "delete"
    /\ UNCHANGED <<proc, sigBlocked, absorbed, exitedFirst, drained, log>>
    /\ UNCHANGED pipeVars
    /\ UNCHANGED restVars

\* signal_set.wait() returns any other signal: kill(init_pid, Some(signal)),
\* whose result ok is dropped by `let _ =`
SigwaitForward(s, ok) ==
    /\ pc = "hf_wait"
    /\ s \in pending
    /\ s # "SIGCHLD"
    /\ s \notin IgnoredSignals
    /\ pending' = pending \ {s}
    /\ fwdLog' = Append(fwdLog, [sig |-> s, pid |-> InitPid, ok |-> ok])
    /\ UNCHANGED <<pc, proc, sigBlocked, hfResult, absorbed, exitedFirst, drained, log>>
    /\ UNCHANGED pipeVars
    /\ UNCHANGED restVars

\* signal_set.wait().with_context(...)? fails: handle_foreground returns Err
SigwaitErr ==
    /\ pc = "hf_wait"
    /\ hfResult' = Err("sigwait")
    /\ pc' = "delete"
    /\ UNCHANGED <<proc, pending, sigBlocked, fwdLog, absorbed, exitedFirst, drained, log>>
    /\ UNCHANGED pipeVars
    /\ UNCHANGED restVars

Zombies == {p \in Pids : proc[p].state = "zombie"}
Running == {p \in Pids : proc[p].state = "running"}

\* WaitpidReap without the two `return`s: init is reaped like any child
WaitpidReapNoReturn(p) ==
    /\ pc = "hf_reap"
    /\ p \in Zombies
    /\ proc' = [proc EXCEPT ![p].state = "reaped"]
    /\ UNCHANGED <<hfResult, pc>>
    /\ drained' = drained + 1
    /\ UNCHANGED <<pending, sigBlocked, fwdLog, absorbed, exitedFirst, log>>
    /\ UNCHANGED pipeVars
    /\ UNCHANGED restVars

\* WaitpidReap with an `if` in place of the inner loop: one query for each
\* SIGCHLD
WaitpidReapOnce(p) ==
    /\ pc = "hf_reap"
    /\ p \in Zombies
    /\ proc' = [proc EXCEPT ![p].state = "reaped"]
    /\ IF p = InitPid
         THEN /\ hfResult' = OkStatus(StatusVal(proc[p].status))
              /\ pc' = "delete"
         ELSE /\ pc' = "hf_wait"
              /\ UNCHANGED hfResult
    /\ drained' = drained + 1
    /\ UNCHANGED <<pending, sigBlocked, fwdLog, absorbed, exitedFirst, log>>
    /\ UNCHANGED pipeVars
    /\ UNCHANGED restVars

\* WaitpidReap without the comparison of the pid with init_pid: the first
\* reaped child ends the loop
WaitpidReapAny(p) ==
    /\ pc = "hf_reap"
    /\ p \in Zombies
    /\ proc' = [proc EXCEPT ![p].state = "reaped"]
    /\ hfResult' = OkStatus(StatusVal(proc[p].status))
    /\ pc' = "delete"
    /\ drained' = drained + 1
    /\ UNCHANGED <<pending, sigBlocked, fwdLog, absorbed, exitedFirst, log>>
    /\ UNCHANGED pipeVars
    /\ UNCHANGED restVars

\* waitpid(None, WNOHANG) reports the exited child p (any one of the
\* zombies) and reaps it: the Exited and Signaled arms
WaitpidReap(p) ==
    /\ pc = "hf_reap"
    /\ p \in Zombies
    /\ proc' = [proc EXCEPT ![p].state = "reaped"]
    /\ IF p = InitPid
         THEN /\ hfResult' = OkStatus(StatusVal(proc[p].status))
              /\ pc' = "delete"
         ELSE UNCHANGED <<hfResult, pc>>
    /\ drained' = drained + 1
    /\ UNCHANGED <<pending, sigBlocked, fwdLog, absorbed, exitedFirst, log>>
    /\ UNCHANGED pipeVars
    /\ UNCHANGED restVars

\* WaitpidStillAlive that returns Ok(0) in place of the break
WaitpidStillAliveReturns ==
    /\ pc = "hf_reap"
    /\ Zombies = {}
    /\ Running # {}
    /\ hfResult' = OkStatus(0)
    /\ pc' = "delete"
    /\ UNCHANGED <<proc, pending, sigBlocked, fwdLog, absorbed, exitedFirst,
                   drained, log>>
    /\ UNCHANGED pipeVars
    /\ UNCHANGED restVars

\* waitpid(None, WNOHANG) reports StillAlive: no child has pending status;
\* break to the outer loop
WaitpidStillAlive ==
    /\ pc = "hf_reap"
    /\ Zombies = {}
    /\ Running # {}
    /\ pc' = "hf_wait"
    /\ UNCHANGED <<log>>
    /\ UNCHANGED supVars
    /\ UNCHANGED pipeVars
    /\ UNCHANGED restVars

\* WaitpidErr with the error of handle_foreground returned by run_container
WaitpidErrPropagated ==
    /\ pc = "hf_reap"
    /\ hfResult' = Err("waitpid")
    /\ runResult' = Err("waitpid")
    /\ pc' = "exit"
    /\ UNCHANGED <<proc, pending, sigBlocked, fwdLog, absorbed, exitedFirst, drained, log>>
    /\ UNCHANGED pipeVars
    /\ UNCHANGED <<container, arrived>>

\* waitpid(None, WNOHANG)? fails: handle_foreground returns Err
WaitpidErr ==
    /\ pc = "hf_reap"
    /\ hfResult' = Err("waitpid")
    /\ pc' = "delete"
    /\ UNCHANGED <<proc, pending, sigBlocked, fwdLog, absorbed, exitedFirst, drained, log>>
    /\ UNCHANGED pipeVars
    /\ UNCHANGED restVars

(* ------------------- the processes around the supervisor --------------- *)
Alive == pc \notin {"exit", "killed"}
\* run_container has been entered and the container built: from here on
\* the supervisor has children, and the signals that reach it matter
Supervising == pc \in {"start", "hf_block", "hf_wait", "hf_reap", "delete"}

\* an unrelated child of the supervisor appears
SpawnOther(p) ==
    /\ Supervising
    /\ p \in OtherPids
    /\ proc[p].state = "none"
    /\ proc' = [proc EXCEPT ![p].state = "running"]
    /\ UNCHANGED <<pc, pending, sigBlocked, hfResult, fwdLog, absorbed, exitedFirst, drained, log>>
    /\ UNCHANGED pipeVars
    /\ UNCHANGED restVars

\* a running child exits with status st and becomes a zombie; the kernel
\* sends SIGCHLD, which stays pending (one instance, however many were
\* sent) if blocked and is discarded (default action: ignore) if not
ChildExit(p, st) ==
    /\ Alive
    /\ p \in Running
    /\ st \in StatusesOf(p)
    /\ proc' = [proc EXCEPT ![p] = [state |-> "zombie", status |-> st]]
    /\ pending' = IF sigBlocked THEN pending \cup {"SIGCHLD"} ELSE pending
    /\ exitedFirst' = IF p # InitPid /\ proc[InitPid].state \in {"none", "running"}
                        THEN exitedFirst \cup {p} ELSE exitedFirst
    /\ UNCHANGED <<pc, sigBlocked, hfResult, fwdLog, absorbed, drained, log>>
    /\ UNCHANGED pipeVars
    /\ UNCHANGED restVars

\* another process sends s to the supervisor while s is blocked
SignalPending(s) ==
    /\ Supervising
    /\ arrived < MaxSignals
    /\ sigBlocked
    /\ arrived' = arrived + 1
    /\ pending' = pending \cup {s}
    /\ UNCHANGED <<pc, proc, sigBlocked, hfResult, fwdLog, absorbed, exitedFirst, drained, log>>
    /\ UNCHANGED <<container, runResult>>
    /\ UNCHANGED pipeVars

\* s arrives while not blocked and its default action is to ignore it
SignalDiscarded(s) ==
    /\ Supervising
    /\ arrived < MaxSignals
    /\ ~sigBlocked
    /\ s \in DefaultIgnored
    /\ arrived' = arrived + 1
    /\ UNCHANGED <<pc, log, container, runResult>>
    /\ UNCHANGED supVars
    /\ UNCHANGED pipeVars

\* s arrives while not blocked and its default action terminates the
\* supervisor
SignalFatal(s) ==
    /\ Supervising
    /\ arrived < MaxSignals
    /\ ~sigBlocked
    /\ s \notin DefaultIgnored
    /\ arrived' = arrived + 1
    /\ pc' = "killed"
    /\ UNCHANGED <<log, container, runResult>>
    /\ UNCHANGED supVars
    /\ UNCHANGED pipeVars

(* --------------------------- specifications ---------------------------- *)
Pipeline ==
    \/ PullOk \/ PullErr
    \/ UnpackCall \/ UnpackLayerOk \/ UnpackLayerErr \/ UnpackDone
    \/ SpecOk \/ SpecErr

RunContainer ==
    \/ BuildOk \/ BuildErr \/ StartOk \/ StartErr \/ DeleteOk \/ DeleteErr

Foreground ==
    \/ ThreadBlockOk
    \/ SigwaitChld
    \/ \E s \in Signals : SigwaitIgnored(s)
    \/ \E s \in Signals, ok \in BOOLEAN : SigwaitForward(s, ok)
    \/ \E p \in Pids : WaitpidReap(p)
    \/ WaitpidStillAlive

\* the system calls of handle_foreground failing
SyscallErr == ThreadBlockErr \/ SigwaitErr \/ WaitpidErr

Environment ==
    \/ \E p \in OtherPids : SpawnOther(p)
    \/ \E p \in Pids : \E st \in StatusesOf(p) : ChildExit(p, st)
    \/ \E s \in Signals : SignalPending(s)
    \/ \E s \in Signals : SignalDiscarded(s)

Next ==
    \/ Pipeline \/ RunContainer \/ Foreground \/ SyscallErr \/ Environment
    \/ \E s \in Signals : SignalFatal(s)

Spec == Init /\ [][Next]_vars

\* the runs in which every system call of handle_foreground succeeds and no
\* fatal signal reaches the supervisor; the program itself always takes its
\* next step (a thread that can run does run), the environment need not
Program == Pipeline \/ RunContainer \/ Foreground
NextLive == Program \/ Environment
LiveSpec == Init /\ [][NextLive]_vars /\ WF_vars(Program)

\* unpack_image on every image of at most MaxLayers layers
NextUnpack ==
    \/ PullOk \/ PullErr
    \/ UnpackCall \/ UnpackLayerOk \/ UnpackLayerErr \/ UnpackDone
UnpackSpec == InitWith(AllImages) /\ [][NextUnpack]_vars


(* ------------------------------ claims --------------------------------- *)
InitExited == proc[InitPid].state \in {"zombie", "reaped"}
InitResult == OkStatus(StatusVal(proc[InitPid].status))
InLoop(x) == x \in {"hf_wait", "hf_reap"}
Pos(s, x) == CHOOSE i \in 1..Len(s) : s[i] = x
Occurs(s, x) == \E i \in 1..Len(s) : s[i] = x
\* p exited, and init exited after it
ExitedBeforeInit(p) == p \in exitedFirst /\ InitExited

\* C1: once the init process has exited, handle_foreground eventually
\* returns init's status, whatever the interleaving of init's exit, the
\* exits of other children and the signals that arrive.
C1_InitExitEventuallyReturned ==
    InitExited ~> (hfResult.kind = "Ok" /\ hfResult = InitResult)

\* C2 as stated: handle_foreground leaves its loop only by reaping init;
\* every other outcome of the wait and reap calls is absorbed.
C2_OnlyExitIsInitReap ==
    (hfResult.kind # "none" /\ hfResult.what # "pthread_sigmask")
        => (hfResult.kind = "Ok" /\ proc[InitPid].state = "reaped")

\* C2 amended: a step that leaves the loop is either the reaping of init,
\* returning Ok(init's status), or an error return of the signal wait or of
\* the reap query; every other retrieved signal and reaped pid keeps the
\* loop running, and a success value is only ever the result of reaping init.
C2_LoopExits ==
    /\ [][(InLoop(pc) /\ ~InLoop(pc'))
            => /\ pc' = "delete"
               /\ \/ /\ pc = "hf_reap"
                     /\ proc[InitPid].state = "zombie"
                     /\ proc'[InitPid].state = "reaped"
                     /\ hfResult' = OkStatus(StatusVal(proc[InitPid].status))
                  \/ /\ hfResult'.kind = "Err"
                     /\ hfResult'.what \in {"sigwait", "waitpid"}
                     /\ proc' = proc]_vars
    /\ [](hfResult.kind = "Ok" => proc[InitPid].state = "reaped")

C2_Witness ==
    /\ hfResult.kind = "Ok"
    /\ \E p \in OtherPids : proc[p].state = "reaped"
    /\ Len(fwdLog) > 0
    /\ Len(absorbed) > 0

\* C3 as stated: when handle_foreground returns, every unrelated child that
\* exited before init has been reaped, in whatever order waitpid reports
\* the exited children.
C3_OtherReapedAtReturn ==
    hfResult.kind = "Ok"
        => \A p \in OtherPids :
               ExitedBeforeInit(p) => proc[p].state = "reaped"

\* C3 amended: reaping an unrelated child never ends handle_foreground and
\* never becomes its result; a success value is init's status.  (Whether an
\* unrelated child that exited first is reaped by then depends on waitpid
\* reporting it before init.)
C3_ReturnsInitStatus ==
    /\ [][\A p \in OtherPids :
            (proc[p].state = "zombie" /\ proc'[p].state = "reaped")
                => (pc' = "hf_reap" /\ hfResult' = NoResult)]_vars
    /\ [](hfResult.kind = "Ok" => hfResult = InitResult)

C3_Witness ==
    /\ hfResult.kind = "Ok"
    /\ \E p \in OtherPids :
           ExitedBeforeInit(p) /\ proc[p].state = "reaped"

\* C4: the signal mask is installed exactly once and before the init
\* process is started, so the init process never exists while signals are
\* unblocked.
C4_MaskBeforeStart ==
    /\ Count(log, "thread_block") <= 1
    /\ Occurs(log, "start")
          => /\ Occurs(log, "thread_block")
             /\ Pos(log, "thread_block") < Pos(log, "start")
    /\ proc[InitPid].state # "none" => sigBlocked

\* C5: when main has returned and a Container was built, delete was called
\* on it exactly once.
C5_DeleteExactlyOnce ==
    (pc = "exit" /\ container # "none") => Count(log, "delete") = 1

\* C6: the run returns init's captured status; a delete failure neither
\* replaces nor masks it.
C6_RunReturnsInitStatus ==
    (pc = "exit" /\ hfResult.kind = "Ok") => runResult = OkStatus(hfResult.val)

\* C7: a kill that fails leaves handle_foreground in its loop, waiting for
\* the next signal, with no result and no error; and once init has been
\* reaped after a failed forward the result is init's status.
C7_ForwardFailureAbsorbed ==
    /\ [][(Len(fwdLog') > Len(fwdLog) /\ ~fwdLog'[Len(fwdLog')].ok)
            => (pc' = "hf_wait" /\ hfResult' = NoResult
                /\ runResult' = NoResult)]_vars
    /\ []((proc[InitPid].state = "reaped"
             /\ \E i \in 1..Len(fwdLog) : ~fwdLog[i].ok)
            => hfResult = InitResult)

C7_Witness ==
    /\ hfResult.kind = "Ok"
    /\ \E i \in 1..Len(fwdLog) : ~fwdLog[i].ok

\* C8: SIGURG and SIGWINCH are never forwarded; retrieving one leaves
\* handle_foreground waiting, with no result; and when one was retrieved
\* while init was running, init's later exit still ends handle_foreground
\* with init's status.
C8_IgnoredSignalsAbsorbed ==
    /\ [](\A i \in 1..Len(fwdLog) : fwdLog[i].sig \notin {"SIGURG", "SIGWINCH"})
    /\ [][\A s \in {"SIGURG", "SIGWINCH"} :
            (pc = "hf_wait" /\ s \in pending /\ s \notin pending')
                => (pc' = "hf_wait" /\ hfResult' = NoResult
                    /\ fwdLog' = fwdLog)]_vars
    /\ ((InitExited /\ \E i \in 1..Len(absorbed) : absorbed[i].init = "running")
           ~> hfResult = InitResult)

C8_Witness ==
    /\ hfResult.kind = "Ok"
    /\ \E i \in 1..Len(absorbed) :
           absorbed[i].sig = "SIGURG" /\ absorbed[i].init = "running"
    /\ \E i \in 1..Len(absorbed) :
           absorbed[i].sig = "SIGWINCH" /\ absorbed[i].init = "running"

\* C9: the steps of main run in the order pull, unpack, spec, run_container,
\* each at most once; nothing is invoked after a failure; and after a pull,
\* unpack or spec failure no container is built and no process started.
PipelineOrder == <<"pull", "unpack", "spec", "run_container">>
IsPipelineStep(x) == x \in {"pull", "unpack", "spec", "run_container"}
C9_PipelineOrder ==
    /\ [](LET steps == SelectSeq(log, IsPipelineStep)
          IN  /\ Len(steps) <= Len(PipelineOrder)
              /\ steps = SubSeq(PipelineOrder, 1, Len(steps)))
    /\ []((runResult.kind = "Err" /\ runResult.what \in {"pull", "unpack", "spec"})
            => /\ container = "none"
               /\ proc[InitPid].state = "none"
               /\ ~Occurs(log, "run_container")
               /\ ~Occurs(log, "start"))
    /\ [][runResult.kind = "Err" => (log' = log /\ rootfs' = rootfs)]_vars

C9_Witness ==
    /\ pc = "exit"
    /\ runResult = Err("spec")
    /\ log = <<"pull", "unpack", "spec">>

\* C10: layers are unpacked one at a time in manifest order with
\* last-write-wins per path: after k layers the root holds, at each path,
\* what the last of the first k layers holding that path wrote; a failure
\* in a layer leaves every later layer unapplied.
SetMax(S) == CHOOSE m \in S : \A n \in S : n <= m
LastWrite(img, k, p) ==
    LET W == {i \in 1..k : img[i].files[p] # Absent}
    IN  IF W = {} THEN Absent ELSE img[SetMax(W)].files[p]
C10_LastWriteWins ==
    /\ (pc \in {"unpack_loop", "spec"})
          => /\ \A p \in Paths : rootfs[p] = LastWrite(image, layerIdx, p)
             /\ \A i \in 1..layerIdx : ~image[i].corrupt
    /\ (pc = "spec") => layerIdx = Len(image)
    /\ (runResult = Err("unpack"))
          => /\ image[layerIdx].corrupt
             /\ \A i \in 1..(layerIdx - 1) : ~image[i].corrupt
             /\ \A p \in Paths :
                    \/ rootfs[p] = LastWrite(image, layerIdx - 1, p)
                    \/ /\ image[layerIdx].files[p] # Absent
                       /\ rootfs[p] = image[layerIdx].files[p]

C10_Witness ==
    /\ pc = "spec"
    /\ Len(image) = 2
    /\ image[1].files["/etc/os-release"] = "A"
    /\ image[2].files["/etc/os-release"] = "B"
    /\ rootfs["/etc/os-release"] = "B"

\* get_rootless on every template within the bounds, from the state in which
\* spec() is called
InitRootless ==
    /\ InitState(SampleImages, AllTemplates)
    /\ ~image[Len(image)].corrupt
NextRootless ==
    \/ PullOk \/ UnpackCall \/ UnpackLayerOk \/ UnpackDone \/ SpecOk \/ SpecErr
RootlessSpec == InitRootless /\ [][NextRootless]_vars

\* C11: the spec get_rootless builds has exactly one user namespace and no
\* network namespace, exactly one uid mapping and one gid mapping, each of
\* the invoking id to container id 0 with size 1, and every mount at /sys
\* has options holding ro, nosuid, noexec and nodev and not rw.
NsOfType(nss, t) == {i \in 1..Len(nss) : nss[i].typ = t}
Elems(q) == {q[i] : i \in 1..Len(q)}
C11_RootlessShape ==
    ociSpec.built
      => /\ Cardinality(NsOfType(ociSpec.namespaces, "user")) = 1
         /\ NsOfType(ociSpec.namespaces, "network") = {}
         /\ Len(ociSpec.uid_mappings) = 1
         /\ ociSpec.uid_mappings[1].container_id = 0
         /\ ociSpec.uid_mappings[1].size = 1
         /\ ociSpec.uid_mappings[1].host_id = template.ids.uid
         /\ Len(ociSpec.gid_mappings) = 1
         /\ ociSpec.gid_mappings[1].container_id = 0
         /\ ociSpec.gid_mappings[1].size = 1
         /\ ociSpec.gid_mappings[1].host_id = template.ids.gid
         /\ \A i \in 1..Len(ociSpec.mounts) :
                ociSpec.mounts[i].destination = <<"sys">>
                  => /\ ociSpec.mounts[i].options.some
                     /\ {S_ro, S_nosuid, S_noexec, S_nodev}
                           \subseteq Elems(ociSpec.mounts[i].options.val)
                     /\ S_rw \notin Elems(ociSpec.mounts[i].options.val)

C11_Witness ==
    /\ ociSpec.built
    /\ NsOfType(template.namespaces, "user") # {}
    /\ NsOfType(template.namespaces, "network") # {}
    /\ \E i \in 1..Len(template.mounts) :
           /\ template.mounts[i].destination = <<"sys">>
           /\ template.mounts[i].options = Some(<<S_rw>>)

\* C12: for every mount whose destination is not /sys the rebuilt option
\* list is the original list without the options that begin with uid= or
\* gid=: the other options are all there, in their original order, and
\* nothing is added.
IsIdOption(o) ==
    /\ Len(o) >= 4
    /\ o[1] \in {"u", "g"}
    /\ o[2] = "i"
    /\ o[3] = "d"
    /\ o[4] = "="
NthOf(K, j) == CHOOSE k \in K : Cardinality({x \in K : x <= k}) = j
C12_OptionsFiltered ==
    ociSpec.built
      => /\ Len(ociSpec.mounts) = Len(template.mounts)
         /\ \A i \in 1..Len(template.mounts) :
              template.mounts[i].destination # <<"sys">>
                => LET orig == IF template.mounts[i].options.some
                                 THEN template.mounts[i].options.val
                                 ELSE << >>
                       res == ociSpec.mounts[i].options.val
                       K == {k \in 1..Len(orig) : ~IsIdOption(orig[k])}
                   IN  /\ ociSpec.mounts[i].destination
                             = template.mounts[i].destination
                       /\ ociSpec.mounts[i].options.some
                       /\ Len(res) = Cardinality(K)
                       /\ \A j \in 1..Len(res) : res[j] = orig[NthOf(K, j)]

C12_Witness ==
    /\ ociSpec.built
    /\ \E i \in 1..Len(template.mounts) :
           /\ template.mounts[i].destination # <<"sys">>
           /\ template.mounts[i].options = Some(<<S_uid1000, S_rw>>)
           /\ ociSpec.mounts[i].options = Some(<<S_rw>>)
    /\ \E i \in 1..Len(template.mounts) :
           /\ template.mounts[i].destination # <<"sys">>
           /\ template.mounts[i].options = Some(<<S_rw, S_gid5>>)

\* C13: the container goes from built to started to supervised to deleted,
\* one step at a time and never back: start is called only on a built
\* container, handle_foreground is entered only after a successful start,
\* with init's pid known, and delete is called only after handle_foreground
\* has returned.
Added(x) ==
    /\ Len(log') > Len(log)
    /\ \E i \in (Len(log) + 1)..Len(log') : log'[i] = x
Rank(c) ==
    CASE c = "none" -> 0 [] c = "built" -> 1 [] c = "started" -> 2
      [] c = "deleted" -> 3
C13_LifecycleOrder ==
    [][/\ Added("start")
            => (container = "built" /\ ~Occurs(log, "start"))
       /\ Added("thread_block")
            => /\ container = "started"
               /\ proc[InitPid].state # "none"
               /\ hfResult = NoResult
               /\ ~Occurs(log, "thread_block")
       /\ Added("delete")
            => /\ container = "started"
               /\ Occurs(log, "thread_block")
               /\ hfResult.kind # "none"
               /\ ~Occurs(log, "delete")
       /\ Rank(container') \in {Rank(container), Rank(container) + 1}]_vars

C13_Witness ==
    /\ container = "deleted"
    /\ log = <<"pull", "unpack", "spec", "run_container", "build", "start",
               "thread_block", "delete">>

\* C14: the value handle_foreground returns is the exit code of init when
\* init exited normally and the number of the signal when init was killed
\* by a signal; it is never taken from another child.
C14_ResultIsInitStatus ==
    hfResult.kind = "Ok"
      => LET st == proc[InitPid].status
         IN  /\ proc[InitPid].state = "reaped"
             /\ hfResult.what = "status"
             /\ st.kind \in {"Exited", "Signaled"}
             /\ st.kind = "Exited" => hfResult.val = st.code
             /\ (st.kind = "Signaled" /\ st.sig = "SIGTERM")
                    => hfResult.val = 15
             /\ (st.kind = "Signaled" /\ st.sig = "SIGKILL")
                    => hfResult.val = 9
             /\ st.kind = "Signaled" => st.sig \in {"SIGTERM", "SIGKILL"}

C14_Witness ==
    /\ hfResult.kind = "Ok"
    /\ hfResult.val = 15
    /\ proc[InitPid].status.kind = "Signaled"
    /\ \E p \in OtherPids :
           proc[p].state = "reaped" /\ proc[p].status.kind = "Exited"

\* C15: a step of the loop that retrieves a signal other than SIGCHLD,
\* SIGURG and SIGWINCH sends exactly that signal once, to init_pid, and
\* nothing else ever sends a signal: the signals sent are the signals
\* retrieved, in the order of their retrieval.
C15_ForwardedOnceInOrder ==
    /\ [][/\ \A s \in Signals \ {"SIGCHLD", "SIGURG", "SIGWINCH"} :
               (pc = "hf_wait" /\ s \in pending /\ s \notin pending')
                  => /\ Len(fwdLog') = Len(fwdLog) + 1
                     /\ SubSeq(fwdLog', 1, Len(fwdLog)) = fwdLog
                     /\ fwdLog'[Len(fwdLog')].sig = s
                     /\ fwdLog'[Len(fwdLog')].pid = InitPid
          /\ fwdLog' # fwdLog
               => \E s \in Signals \ {"SIGCHLD", "SIGURG", "SIGWINCH"} :
                      pc = "hf_wait" /\ s \in pending /\ s \notin pending']_vars
    /\ [](\A i \in 1..Len(fwdLog) : fwdLog[i].pid = 100)

C15_Witness ==
    /\ Len(fwdLog) = 2
    /\ fwdLog[1].sig = "SIGTERM"
    /\ fwdLog[2].sig = "SIGHUP"

\* C16: when handle_foreground returns an error (from the signal mask, the
\* signal wait or the reap query), run_container goes on to delete: the
\* error is not what run_container returns and delete is called.  (After a
\* failed pthread_sigmask the signals are still unblocked, so a fatal signal
\* can end the whole process before it takes that step.)
C16_DeleteAfterSuperviseError ==
    hfResult.kind = "Err"
      => /\ hfResult.what \in {"pthread_sigmask", "sigwait", "waitpid"}
         /\ pc \in {"delete", "exit", "killed"}
         /\ pc = "killed" => (hfResult.what = "pthread_sigmask" /\ ~sigBlocked)
         /\ pc = "exit"
              => /\ Count(log, "delete") = 1
                 /\ runResult \in {OkUnit, Err("delete")}

C16_Witness ==
    /\ pc = "exit"
    /\ hfResult = Err("sigwait")
    /\ container = "deleted"
    /\ runResult = OkUnit

\* C17: when the inner loop breaks and handle_foreground goes back to
\* waiting, no child that has exited is left unreaped, however many exits
\* the one SIGCHLD stood for; and the inner loop always ends.
C17_DrainReapsAll ==
    /\ [][(pc = "hf_reap" /\ pc' = "hf_wait")
            => /\ \A p \in Pids : proc[p].state # "zombie"
               /\ \A p \in Pids : proc'[p].state # "zombie"
               /\ \A p \in exitedFirst : proc'[p].state = "reaped"]_vars
    /\ (pc = "hf_reap" ~> pc # "hf_reap")

C17_Witness ==
    /\ pc = "hf_wait"
    /\ drained = 2
    /\ \A p \in OtherPids : proc[p].state = "reaped"
    /\ proc[InitPid].state = "running"

\* C18: every kill is issued while init is running or an unreaped zombie
\* and before handle_foreground has a result; once init has been reaped no
\* signal is sent any more.
C18_NoForwardAfterReap ==
    [][/\ fwdLog' # fwdLog
            => /\ proc[InitPid].state \in {"running", "zombie"}
               /\ proc'[InitPid].state \in {"running", "zombie"}
               /\ hfResult = NoResult
       /\ proc[InitPid].state = "reaped" => fwdLog' = fwdLog]_vars

C18_Witness ==
    /\ proc[InitPid].state = "reaped"
    /\ Len(fwdLog) > 0
    /\ pending \cap {"SIGHUP", "SIGTERM"} # {}

\* C19: a success value of handle_foreground means that init has exited and
\* has been reaped, so the delete that follows a success is never issued
\* while init is running.
C19_SuccessMeansInitReaped ==
    /\ [][(Added("delete") /\ hfResult.kind = "Ok")
            => /\ proc[InitPid].state = "reaped"
               /\ proc[InitPid].status.kind \in {"Exited", "Signaled"}]_vars
    /\ [](hfResult.kind = "Ok" => proc[InitPid].state \notin {"none", "running"})

C19_Witness ==
    /\ container = "deleted"
    /\ hfResult.kind = "Ok"
    /\ proc[InitPid].state = "reaped"

TypeOK ==
    /\ pc \in {"pull", "unpack", "unpack_loop", "spec", "build", "start",
               "hf_block", "hf_wait", "hf_reap", "delete", "exit", "killed"}
    /\ container \in {"none", "built", "started", "deleted"}
    /\ pending \subseteq Signals
    /\ sigBlocked \in BOOLEAN
    /\ arrived \in 0..MaxSignals
    /\ layerIdx \in 0..Len(layers)
    /\ \A p \in Pids : proc[p].state \in {"none", "running", "zombie", "reaped"}
    /\ drained \in 0..Cardinality(Pids)
====
